---- MODULE Spec2Model ----
(***************************************************************************)
(* The reactive core of src/index.js (lines 119-340 and 530-547): the     *)
(* dependency store (bucket, track, trigger), the effect runtime (effect, *)
(* cleanup, effectStack, activeEffect), the proxy traps, computed and the *)
(* job queue (queueJob).                                                  *)
(*                                                                         *)
(* JavaScript runs one call at a time, so every operation of the program  *)
(* is a function from the whole program state to the whole program state. *)
(* The operators below thread a record s holding that state; an action of *)
(* the specification is one top-level call (a statement of a script, or   *)
(* the microtask) run to its end, with every effect it re-runs. The calls *)
(* that have not returned yet, the call stack of the program, are kept in *)
(* s.ctl (see Frame), and Run carries the call on top forward until the   *)
(* top-level call returns or throws.                                       *)
(***************************************************************************)
EXTENDS Integers, Sequences, FiniteSets, TLC

\* ------------------------------------------------------------------ bounds
\* Deepest nesting of effectFn calls that is followed. A call that nests
\* deeper is followed no further: it either ends deeper down or exhausts the
\* call stack of the engine, at a depth and in a state that vary from run to
\* run and lie far outside the other bounds.
MaxDepth == 8
\* A top-level call is followed for 2^MaxRun steps of its calls (see Run).
MaxRun == 8
\* Effects created in one behaviour.
MaxEffects == 3
\* Numbers stored in properties stay in 0..MaxVal.
MaxVal == 5
\* Entries on effectStack (it is never unwound after a throw).
MaxStack == 9
\* Longest array.
MaxLen == 3
\* Computed objects created in one behaviour.
MaxComps == 1
\* Entries of one effect's deps list (track appends one on every read).
MaxDeps == 12
\* Entries of the deps list of an effect that a throw has left active, from
\* which on the behaviour is followed no further (every read and write of a
\* script appends one).
MaxStaleDeps == 3
\* Effects scheduled by queueJob.
MaxJobs == 2
\* Entries of the deps list of a job that a throw has left active: enough for
\* the two writes of the batch window after the one whose flush it ended, and
\* for the flush of that window.
MaxStaleJobDeps == 5
\* Entries that uncaught errors have left on effectStack, from which on a
\* behaviour with throwing getters or jobs is followed no further.
MaxStale == 2

\* ------------------------------------------------------------------ values
\* undefined and NaN; every other value is a natural number. Hole is an index
\* below the length of an array that the array does not own.
Undef == -1
NaN == -2
Hole == -3

ITERATE_KEY == "ITERATE_KEY"
Targets == {"obj", "arr"}
ObjKeys == {"c", "x", "y"}
IdxKeys == {"0", "1", "2", "3", "4"}
ArrKeys == IdxKeys \cup {"length"}
\* The keys of arrayInstrumentations: the methods that search, and those
\* that change the length
FindKeys == {"includes", "indexOf", "lastIndexOf"}
LengthKeys == {"push", "pop", "shift", "unshift", "splice"}
MethodKeys == FindKeys \cup LengthKeys
DepKeys ==
  ObjKeys \cup ArrKeys \cup MethodKeys \cup {"raw", "constructor", ITERATE_KEY}

\* Array.isArray(target)
IsArray(t) == t = "arr"

\* Number(key) for the keys of the model; NaN for a key that is no index.
Num(k) ==
  CASE k = "0" -> 0 [] k = "1" -> 1 [] k = "2" -> 2 [] k = "3" -> 3
    [] k = "4" -> 4 [] OTHER -> NaN

\* String(n) for the indices of the model
IdxKey(n) ==
  CASE n = 0 -> "0" [] n = 1 -> "1" [] n = 2 -> "2" [] n = 3 -> "3" [] OTHER -> "4"

\* a === b
StrictEq(a, b) == a = b /\ a # NaN

\* a < b of two numbers (false when either is NaN)
NumLess(a, b) == a # NaN /\ b # NaN /\ a < b

\* ---------------------------------------------------------------- programs
\* The functions handed to effect() and computed(): a function is a sequence
\* of statements, each a record  op, t, k, v, a, b :
\*   read   t.k                      (value added to the function's result)
\*   write  t.k = v
\*   incr   t.k++
\*   if     t.k ? a() : b()          (a, b name functions, run in place)
\*   effect effect(a)
\*   cread  computed number v .value (value added to the function's result)
\*   push   t.push(v)
\*   pop    t.pop()
\*   shift  t.shift()
\*   unshift t.unshift(v)
\*   splice t.splice(k, v)
\*   find   t.a(v), a one of includes, indexOf, lastIndexOf
\*   has    k in t
\*   keys   for (const key in t) {}
\*   delete delete t.k
\*   throw  throw new Error()
\* and the steps a method of Array.prototype takes on the proxy O:
\*   get    Get(O, k)
\*   copy   HasProperty(O, k) and, if it is there, Get(O, k)
\*   move   HasProperty(O, a); if it is there Get(O, a) and Set(O, k, it),
\*          else DeletePropertyOrThrow(O, k)
\*   return the end of the method of arrayInstrumentations: shouldTrack =
\*          true; return v
\* with Set(O, k, v) a write and DeletePropertyOrThrow(O, k) a delete; and
\*   operand  the value just returned (by .value of a computed) is an operand
\*          of the result
Op(op, t, k, v, a, b) == [op |-> op, t |-> t, k |-> k, v |-> v, a |-> a, b |-> b]

Fn(name) ==
  CASE name = "rx"     -> << Op("read", "obj", "x", 0, "", "") >>
    [] name = "ry"     -> << Op("read", "obj", "y", 0, "", "") >>
    [] name = "branch" -> << Op("if", "obj", "c", 0, "rx", "ry") >>
    [] name = "incr"   -> << Op("incr", "obj", "x", 0, "", "") >>
    [] name = "flip"   -> << Op("if", "obj", "c", 0, "flipT", "ry") >>
    [] name = "flipT"  -> << Op("write", "obj", "c", 0, "", ""),
                             Op("read", "obj", "x", 0, "", "") >>
    [] name = "nest"   -> << Op("effect", "", "", 0, "ry", ""),
                             Op("read", "obj", "x", 0, "", "") >>
    [] name = "sum"    -> << Op("read", "obj", "x", 0, "", ""),
                             Op("read", "obj", "y", 0, "", "") >>
    [] name = "rc"     -> << Op("cread", "", "", 1, "", "") >>
    [] name = "r0"     -> << Op("read", "arr", "0", 0, "", "") >>
    [] name = "r2"     -> << Op("read", "arr", "2", 0, "", "") >>
    [] name = "rlen"   -> << Op("read", "arr", "length", 0, "", "") >>
    [] name = "boom"   -> << Op("read", "obj", "y", 0, "", ""),
                             Op("if", "obj", "c", 0, "throw", "nop") >>
    [] name = "throw"  -> << Op("throw", "", "", 0, "", "") >>
    [] name = "relay"  -> << Op("read", "obj", "y", 0, "", ""),
                             Op("write", "obj", "x", 1, "", "") >>
    [] name = "push"   -> << Op("push", "arr", "", 1, "", "") >>
    [] name = "pop"    -> << Op("pop", "arr", "", 0, "", "") >>
    [] name = "shift"  -> << Op("shift", "arr", "", 0, "", "") >>
    [] name = "unshift" -> << Op("unshift", "arr", "", 0, "", "") >>
    [] name = "splice" -> << Op("splice", "arr", "0", 1, "", "") >>
    [] name = "incl0"  -> << Op("find", "arr", "", 0, "includes", "") >>
    [] name = "incl5"  -> << Op("find", "arr", "", 5, "includes", "") >>
    [] name = "idx0"   -> << Op("find", "arr", "", 0, "indexOf", "") >>
    [] name = "last0"  -> << Op("find", "arr", "", 0, "lastIndexOf", "") >>
    [] name = "hasx"   -> << Op("has", "obj", "x", 0, "", "") >>
    [] name = "r2boom" -> << Op("if", "arr", "2", 0, "throw", "nop") >>
    [] name = "iterA"  -> << Op("keys", "arr", "", 0, "", "") >>
    [] name = "iter"   -> << Op("keys", "obj", "", 0, "", "") >>
    [] name = "iterx"  -> << Op("keys", "obj", "", 0, "", ""),
                             Op("read", "obj", "x", 0, "", "") >>
    [] OTHER           -> << >>

\* ------------------------------------------------------------------- state
VARIABLES
  objv,         \* the plain object target: key -> value
  objOwn,       \* its own keys
  arrv,         \* the array target: its elements
  rawSelf,      \* target -> whether target.raw is the target itself
  bucket,       \* target -> depsMap: its keys in insertion order, key -> Set
  effects,      \* every effectFn created: fn, options (lazy, scheduler), deps;
                \* and, to state the claims, whether its latest run returned
                \* (state) and what that run read (lastReads)
  effectStack,
  activeEffect, \* 0 is undefined
  comps,        \* every computed created: its effectFn, value, dirty; and, to
                \* state the claims, how often the getter was called (runs)
                \* and how often it returned (rets) since it last turned dirty
  queue,        \* the Set of pending jobs, in insertion order
  isFlushing,
  shouldTrack,
  watchers,     \* every watch called: its effectFn, oldValue, newValue
  flushPending, \* the callback handed to p.then has not run yet
  turnCnt,      \* effect -> scheduler calls in the current turn (2: two or more);
                \* the flush that ends the turn negates it, and so it stays
                \* until the scheduler of the effect is called again
  log,          \* what the last top-level call did, in order
  err           \* the error the last top-level call ended with, or "none"

vars == << objv, objOwn, arrv, rawSelf, bucket, effects, effectStack,
           activeEffect, comps, queue, isFlushing, shouldTrack, watchers,
           flushPending, turnCnt, log, err >>

\* The program state a top-level call starts from. ret is the value the last
\* call returned, acc the operands of the result of the function that is
\* running, rds what that function has read so far, oob whether a bound of
\* the model was passed, stop whether the call has ended early: by a throw
\* (err says of what) or at a bound, depth how many calls of effectFn have
\* not returned, ctl what the call has yet to do (see Frame).
St ==
  [ objv |-> objv, objOwn |-> objOwn, arrv |-> arrv, rawSelf |-> rawSelf,
    bucket |-> bucket, effects |-> effects, effectStack |-> effectStack,
    activeEffect |-> activeEffect, comps |-> comps, queue |-> queue,
    isFlushing |-> isFlushing, shouldTrack |-> shouldTrack,
    watchers |-> watchers,
    flushPending |-> flushPending,
    log |-> << >>, err |-> "none", ret |-> Undef, acc |-> << >>,
    rds |-> {}, oob |-> FALSE, stop |-> FALSE, depth |-> 0, ctl |-> << >> ]

\* What the log holds, one record  ev, e, a, t, k, v  per event:
\*   op      the top-level call: t its name, k and v its arguments
\*   read    a get trap ran for t.k inside the function of effect e (0: outside
\*           every effect) and returned v; a is activeEffect at that moment
\*   trigger trigger(t, k, type) was entered; a is activeEffect, v the type
\*           (0 SET, 1 ADD, 2 DELETE)
\*   run     effectFn e was called; a is activeEffect at the call, t its caller
\*           (create, trigger, computed, flush), v the call depth
\*   done    effectFn e returned: a is the result of fn, v what effectFn returned
\*   sched   the scheduler of effect e was called; a is activeEffect
\*   cread   .value of computed v was read inside effect e; a is 1 when dirty
\*   cval    that read returned a (computed v, inside effect e)
\*   throw   an error named t was thrown; a is activeEffect
\*   has     a has trap ran for k in t inside the function of effect e and
\*           returned v (1 true, 0 false); a is activeEffect at that moment
\*   call    method k of array t was called with v inside effect e
\*   cb      the callback of the watch of effectFn e was called with (a, v)
Ev(ev, e, a, t, k, v) == [ev |-> ev, e |-> e, a |-> a, t |-> t, k |-> k, v |-> v]

Logged(s, ev) == [s EXCEPT !.log = Append(@, ev)]

Throw(s, name) ==
  [Logged(s, Ev("throw", 0, s.activeEffect, name, "", 0)) EXCEPT !.err = name, !.stop = TRUE]

\* A bound of the model is passed: what the program does from here on is not
\* followed
Bound(s) == [s EXCEPT !.oob = TRUE, !.stop = TRUE]

\* ----------------------------------------------------------------- helpers
Range(q) == {q[i] : i \in 1..Len(q)}

SeqAdd(q, x) == IF x \in Range(q) THEN q ELSE Append(q, x)

RECURSIVE SeqDel(_, _)
SeqDel(q, x) ==
  IF q = << >> THEN << >>
  ELSE IF Head(q) = x THEN SeqDel(Tail(q), x)
  ELSE << Head(q) >> \o SeqDel(Tail(q), x)

RECURSIVE SeqUnion(_, _)
SeqUnion(q, r) ==
  IF r = << >> THEN q ELSE SeqUnion(SeqAdd(q, Head(r)), Tail(r))

EmptyDepsMap == [keys |-> << >>, sets |-> [k \in DepKeys |-> << >>]]

\* target[key]
Prop(s, t, k) ==
  IF IsArray(t)
  THEN IF k = "length" THEN Len(s.arrv)
       ELSE IF k \in IdxKeys /\ Num(k) < Len(s.arrv) /\ s.arrv[Num(k) + 1] # Hole
       THEN s.arrv[Num(k) + 1]
       ELSE Undef
  ELSE IF k \in s.objOwn THEN s.objv[k] ELSE Undef

\* Object.prototype.hasOwnProperty.call(target, key)
HasOwn(s, t, k) ==
  IF IsArray(t)
  THEN k = "length"
       \/ (k \in IdxKeys /\ Num(k) < Len(s.arrv) /\ s.arrv[Num(k) + 1] # Hole)
       \/ (k = "raw" /\ s.rawSelf[t])
  ELSE k \in s.objOwn \/ (k = "raw" /\ s.rawSelf[t])

\* Reflect.set(target, key, newVal, receiver) on a data property. A length
\* that is no array length (undefined, NaN) is a RangeError of the array, which
\* stays as it is.
ReflectSet(s, t, k, v) ==
  IF v > MaxVal THEN Bound(s)
  ELSE IF IsArray(t)
  THEN IF k = "length"
       THEN IF v < 0 THEN Throw(s, "RangeError")
            ELSE IF v > MaxLen THEN Bound(s)
            ELSE [s EXCEPT !.arrv =
                   [i \in 1..v |-> IF i <= Len(s.arrv) THEN s.arrv[i] ELSE Hole]]
       ELSE IF Num(k) + 1 > MaxLen THEN Bound(s)
       ELSE [s EXCEPT !.arrv =
               [i \in 1..(IF Num(k) + 1 > Len(s.arrv) THEN Num(k) + 1 ELSE Len(s.arrv))
                  |-> IF i = Num(k) + 1 THEN v
                      ELSE IF i <= Len(s.arrv) THEN s.arrv[i] ELSE Hole]]
  ELSE [s EXCEPT !.objv[k] = v, !.objOwn = @ \cup {k}]

\* Reflect.deleteProperty(target, key): the state after it, and its result
ReflectDelete(s, t, k) ==
  IF IsArray(t)
  THEN IF k \in IdxKeys /\ Num(k) < Len(s.arrv)
       THEN [s EXCEPT !.arrv[Num(k) + 1] = Hole]
       ELSE s
  ELSE [s EXCEPT !.objv[k] = Undef, !.objOwn = @ \ {k}]

DeleteRes(t, k) == ~(IsArray(t) /\ k = "length")

\* Reflect.has(target, key): an own key, or one of the prototype
ReflectHas(s, t, k) ==
  \/ HasOwn(s, t, k)
  \/ k = "constructor"
  \/ IsArray(t) /\ k \in MethodKeys

\* ------------------------------------------------------- dependency store
TypeNum(type) == CASE type = "SET" -> 0 [] type = "ADD" -> 1 [] OTHER -> 2

\* track(target, key)
Track(s, t, k) ==
  IF s.activeEffect = 0 THEN s
  ELSE LET ae == s.activeEffect
           dm == s.bucket[t]
       IN  IF Len(s.effects[ae].deps) >= MaxDeps THEN Bound(s)
           ELSE [s EXCEPT !.bucket[t] =
                            [keys |-> SeqAdd(dm.keys, k),
                             sets |-> [dm.sets EXCEPT ![k] = SeqAdd(@, ae)]],
                          !.effects[ae].deps = Append(@, << t, k >>)]

RECURSIVE CleanupFrom(_, _, _)
CleanupFrom(s, e, i) ==
  IF i > Len(s.effects[e].deps)
  THEN [s EXCEPT !.effects[e].deps = << >>]
  ELSE LET d == s.effects[e].deps[i]
       IN  CleanupFrom([s EXCEPT !.bucket[d[1]].sets[d[2]] = SeqDel(@, e)], e, i + 1)

\* cleanup(effectFn)
Cleanup(s, e) == CleanupFrom(s, e, 1)

\* The get trap: track, then Reflect.get. self is the effect whose function
\* holds the read.
GetTrap(s, self, t, k) ==
  LET s1 == Track(s, t, k)
      v  == Prop(s, t, k)
  IN  [Logged(s1, Ev("read", self, s.activeEffect, t, k, v))
         EXCEPT !.ret = v, !.rds = @ \cup {<< t, k >>}]

\* The has trap: track, then Reflect.has
HasTrap(s, self, t, k) ==
  LET s1 == Track(s, t, k)
      v  == IF ReflectHas(s, t, k) THEN 1 ELSE 0
  IN  [Logged(s1, Ev("has", self, s.activeEffect, t, k, v))
         EXCEPT !.ret = v, !.rds = @ \cup {<< t, k >>}]

\* queueJob(job), the callback handed to p.then being the action Flush
QueueJob(s, job) ==
  LET s1 == [s EXCEPT !.queue = SeqAdd(@, job)]
  IN  IF ~s1.isFlushing
      THEN [s1 EXCEPT !.isFlushing = TRUE, !.flushPending = TRUE]
      ELSE s1

\* The scheduler option of computed's effectFn
ComputedScheduler(s, c) ==
  IF ~s.comps[c].dirty
  THEN [s EXCEPT !.comps[c].dirty = TRUE, !.comps[c].runs = 0, !.comps[c].rets = 0]
  ELSE s

\* effectFn.options.scheduler(effectFn)
Scheduler(s, e) ==
  LET s1 == Logged(s, Ev("sched", e, s.activeEffect, "", "", 0))
  IN  CASE s.effects[e].sched = "queueJob" -> QueueJob(s1, e)
        [] s.effects[e].sched = "computed" -> ComputedScheduler(s1, s.effects[e].owner)
        [] OTHER -> s1

\* The truth of a value in a condition
Truthy(v) == v > 0

\* a + b of two values that are numbers, undefined or NaN
Plus(a, b) == IF a < 0 \/ b < 0 THEN NaN ELSE a + b

\* The result of a function from the operands it adds up, left to right;
\* undefined when it has none
RECURSIVE FnResult(_)
FnResult(acc) ==
  IF acc = << >> THEN Undef
  ELSE IF Len(acc) = 1 THEN acc[1]
  ELSE Plus(FnResult(SubSeq(acc, 1, Len(acc) - 1)), acc[Len(acc)])

\* ------------------------------------------------------------ control stack
\* A call of the program that has to wait for another one leaves a frame in
\* ctl, the stack of what the top-level call has yet to do, the next frame
\* first. A frame is a record  f, e, t, k, v, q, rds, acc :
\*   fn       the function of effect e (0: the script) has the statements q
\*            left to run
\*   effectFn effectFn e has called fn(): what it does once fn has returned;
\*            rds and acc are those of the function that called effectFn
\*   effectFnNoStack  the same for an effectFn that keeps no stack
\*   forEach  effectsToRun.forEach of trigger has the effects q left to visit
\*   trigger  trigger(t, k) has called effectsToRun.forEach: the rest of it
\*   value    get value() of computed v, read in effect e, has called
\*            effectFn()
\*   job      job of the watch of effectFn e has called effectFn()
\*   flush    queue.forEach of the microtask is to visit job number v
Frame(f, e, t, k, v, q, rds, acc) ==
  [f |-> f, e |-> e, t |-> t, k |-> k, v |-> v, q |-> q, rds |-> rds, acc |-> acc]

\* The caller goes on with frame fr once what is called next has returned
Defer(s, fr) == [s EXCEPT !.ctl = << fr >> \o @]

\* The statements ops run in place, before what the running function has left
Inline(s, ops) == [s EXCEPT !.ctl[1].q = ops \o @]

\* What trigger does once effectsToRun.forEach has returned
TriggerTail(s1, t, k) ==
  IF IsArray(t) /\ k = "length" THEN Throw(s1, "ReferenceError")
  ELSE s1

\* effectFn from its entry to the call of fn
EffectFnEnter(s, e, cause) ==
  LET s0 == Logged(s, Ev("run", e, s.activeEffect, cause, "", s.depth + 1))
      s1 == Cleanup(s0, e)
  IN  [s1 EXCEPT !.activeEffect = e, !.effectStack = Append(@, e),
                 !.effects[e].state = "running", !.rds = {}, !.acc = << >>,
                 !.depth = @ + 1]

\* effectFn once fn has returned; rds and acc are those of the function that
\* called effectFn
EffectFnLeave(s3, e, rds, acc) ==
  [Logged(s3, Ev("done", e, FnResult(s3.acc), "", "", Undef))
     EXCEPT !.effectStack = SubSeq(@, 1, Len(@) - 1),
            !.activeEffect = IF Len(s3.effectStack) = 1 THEN 0
                             ELSE s3.effectStack[Len(s3.effectStack) - 1],
            !.effects[e].state = "done",
            !.effects[e].lastReads = s3.rds,
            !.rds = rds, !.acc = acc,
            !.ret = Undef,
            !.depth = @ - 1]

\* effectFn without the stack: activeEffect is not restored when fn returns.
EffectFnNoStack(s, e, cause) ==
  IF s.depth >= MaxDepth \/ Len(s.effectStack) >= MaxStack
  THEN Bound(s)
  ELSE Defer(Defer(EffectFnEnter(s, e, cause),
                   Frame("effectFnNoStack", e, "", "", 0, << >>, s.rds, s.acc)),
             Frame("fn", e, "", "", 0, Fn(s.effects[e].fn), {}, << >>))

\* The wrapper effectFn built by effect(). It calls fn() and drops what fn
\* returns, and nothing unwinds effectStack when fn throws.
EffectFn(s, e, cause) ==
  IF s.depth >= MaxDepth \/ Len(s.effectStack) >= MaxStack
  THEN Bound(s)
  ELSE Defer(Defer(EffectFnEnter(s, e, cause),
                   Frame("effectFn", e, "", "", 0, << >>, s.rds, s.acc)),
             Frame("fn", e, "", "", 0, Fn(s.effects[e].fn), {}, << >>))

\* job of watch once effectFn() has returned: cb(newValue, oldValue) and
\* oldValue = newValue
WatchJobCall(s2, e) ==
  LET w == s2.effects[e].owner
  IN  [Logged(s2, Ev("cb", e, s2.ret, "", "", s2.watchers[w].oldValue))
         EXCEPT !.watchers[w].newValue = s2.ret,
                !.watchers[w].oldValue = s2.ret,
                !.ret = Undef]

\* job of watch, the scheduler of its effectFn
WatchJob(s, e) ==
  EffectFn(Defer(Logged(s, Ev("sched", e, s.activeEffect, "", "", 0)),
                 Frame("job", e, "", "", 0, << >>, {}, << >>)),
           e, "job")

\* The callback of effectsToRun.forEach: the scheduler of the effect if it has
\* one (job for an effect of watch), else the effect itself
RunOne(s, e) ==
  CASE s.effects[e].sched = "watch" -> WatchJob(s, e)
    [] s.effects[e].sched = "none" -> EffectFn(s, e, "trigger")
    [] OTHER -> Scheduler(s, e)

\* effectsToRun run from its last member to its first.
RunAllBackwards(s, q) ==
  Defer(s, Frame("forEach", 0, "", "", 0, [i \in 1..Len(q) |-> q[Len(q) + 1 - i]],
                 {}, << >>))

\* effectsToRun.forEach(...) of trigger
RunAll(s, q) ==
  Defer(s, Frame("forEach", 0, "", "", 0, q, {}, << >>))

\* trigger with the effects of "length" put into effectsToRun before it is run.
TriggerRunsLength(s, t, k, type) ==
  LET dm == s.bucket[t]
      toRun == IF type \in {"ADD", "DELETE"}
               THEN SeqUnion(SeqUnion(dm.sets[k], dm.sets[ITERATE_KEY]),
                             IF type = "ADD" /\ IsArray(t)
                             THEN dm.sets["length"] ELSE << >>)
               ELSE dm.sets[k]
      s0 == Logged(s, Ev("trigger", 0, s.activeEffect, t, k, TypeNum(type)))
  IN  IF dm.keys = << >> THEN s
      ELSE RunAll(Defer(s0, Frame("trigger", 0, t, k, 0, << >>, {}, << >>)), toRun)

\* trigger(target, key, type). effectsToRun is run before the effects of
\* "length" and of the indices past the new length are added to it, so these
\* are never run; and the last block reads newVal, which no scope of trigger
\* declares: a ReferenceError on the first key of depsMap.
Trigger(s, t, k, type) ==
  LET dm == s.bucket[t]
      toRun == IF type \in {"ADD", "DELETE"}
               THEN SeqUnion(dm.sets[k], dm.sets[ITERATE_KEY])
               ELSE dm.sets[k]
      s0 == Logged(s, Ev("trigger", 0, s.activeEffect, t, k, TypeNum(type)))
  IN  IF dm.keys = << >> THEN s
      ELSE RunAll(Defer(s0, Frame("trigger", 0, t, k, 0, << >>, {}, << >>)), toRun)

\* The set trap. receiver.raw is a read through the get trap, which has no
\* case for "raw": it tracks the key and returns target.raw.
SetTrap(s, self, t, k, v) ==
  LET oldVal == Prop(s, t, k)
      type == IF IsArray(t)
              THEN (IF NumLess(Num(k), Len(s.arrv)) THEN "SET" ELSE "ADD")
              ELSE (IF HasOwn(s, t, k) THEN "SET" ELSE "ADD")
      s1 == ReflectSet(s, t, k, v)
      s2 == GetTrap(s1, self, t, "raw")
  IN  IF s1.stop THEN s1
      ELSE IF s2.stop THEN s2
      ELSE IF s.rawSelf[t]
              /\ ~StrictEq(oldVal, v)
              /\ (StrictEq(oldVal, oldVal) \/ StrictEq(v, v))
      THEN Trigger(s2, t, k, type)
      ELSE s2

\* effect(fn, options)
Effect(s, fn, lazy, sched, owner) ==
  IF Len(s.effects) >= MaxEffects THEN Bound(s)
  ELSE LET id == Len(s.effects) + 1
           s1 == [s EXCEPT !.effects = Append(@,
                    [fn |-> fn, lazy |-> lazy, sched |-> sched, owner |-> owner,
                     deps |-> << >>, state |-> "new", lastReads |-> {}])]
       IN  IF lazy THEN s1 ELSE EffectFn(s1, id, "create")

\* get value() once effectFn() has returned
ComputedValueStore(s1, self, c) ==
  LET s2 == [s1 EXCEPT !.comps[c].value = s1.ret, !.comps[c].dirty = FALSE,
                       !.comps[c].rets = @ + 1]
  IN  [Logged(s2, Ev("cval", self, s2.comps[c].value, "", "", c))
         EXCEPT !.ret = s2.comps[c].value]

\* get value() without the dirty flag: the getter runs on every read.
ComputedValueNoCache(s, self, c) ==
  LET s0 == Logged(s, Ev("cread", self, IF s.comps[c].dirty THEN 1 ELSE 0, "", "", c))
  IN  EffectFn(Defer([s0 EXCEPT !.comps[c].runs = @ + 1],
                     Frame("value", self, "", "", c, << >>, {}, << >>)),
               s.comps[c].eff, "computed")

\* get value() of the object computed() returns
ComputedValue(s, self, c) ==
  LET s0 == Logged(s, Ev("cread", self, IF s.comps[c].dirty THEN 1 ELSE 0, "", "", c))
  IN  IF s.comps[c].dirty
      THEN EffectFn(Defer([s0 EXCEPT !.comps[c].runs = @ + 1],
                          Frame("value", self, "", "", c, << >>, {}, << >>)),
                    s.comps[c].eff, "computed")
      ELSE [Logged(s0, Ev("cval", self, s.comps[c].value, "", "", c))
              EXCEPT !.ret = s.comps[c].value]

\* The deleteProperty trap
DeleteTrap(s, t, k) ==
  IF HasOwn(s, t, k) /\ DeleteRes(t, k)
  THEN Trigger(ReflectDelete(s, t, k), t, k, "DELETE")
  ELSE IF DeleteRes(t, k) THEN ReflectDelete(s, t, k) ELSE s

\* The ownKeys trap
OwnKeysTrap(s, self, t) ==
  [Logged(Track(s, t, ITERATE_KEY),
          Ev("read", self, s.activeEffect, t, ITERATE_KEY, Undef))
     EXCEPT !.rds = @ \cup {<< t, ITERATE_KEY >>}]

\* The steps of Array.prototype[method] once it has read the length len; v is
\* the element pushed or unshifted, start and v the arguments of splice.
\* Every loop runs over the length read at the start, whatever the effects
\* that run in between do to the array.
OriginSteps(method, len, start, v) ==
  CASE method = "push" ->
         << Op("write", "arr", IdxKey(len), v, "", ""),
            Op("write", "arr", "length", len + 1, "", "") >>
    [] method = "pop" ->
         IF len = 0 THEN << Op("write", "arr", "length", 0, "", "") >>
         ELSE << Op("get", "arr", IdxKey(len - 1), 0, "", ""),
                 Op("delete", "arr", IdxKey(len - 1), 0, "", ""),
                 Op("write", "arr", "length", len - 1, "", "") >>
    [] method = "shift" ->
         IF len = 0 THEN << Op("write", "arr", "length", 0, "", "") >>
         ELSE << Op("get", "arr", "0", 0, "", "") >>
              \o [i \in 1..(len - 1) |->
                    Op("move", "arr", IdxKey(i - 1), 0, IdxKey(i), "")]
              \o << Op("delete", "arr", IdxKey(len - 1), 0, "", ""),
                    Op("write", "arr", "length", len - 1, "", "") >>
    [] method = "unshift" ->
         [i \in 1..len |->
            Op("move", "arr", IdxKey(len - i + 1), 0, IdxKey(len - i), "")]
         \o << Op("write", "arr", "0", v, "", ""),
               Op("write", "arr", "length", len + 1, "", "") >>
    [] method = "splice" ->
         LET from == IF start > len THEN len ELSE start
             count == IF v > len - from THEN len - from ELSE v
         IN  << Op("get", "arr", "constructor", 0, "", "") >>
             \o [i \in 1..count |-> Op("copy", "arr", IdxKey(from + i - 1), 0, "", "")]
             \o (IF count = 0 THEN << >>
                 ELSE [i \in 1..(len - count - from) |->
                         Op("move", "arr", IdxKey(from + i - 1), 0,
                            IdxKey(from + i - 1 + count), "")]
                      \o [i \in 1..count |->
                            Op("delete", "arr", IdxKey(len - i), 0, "", "")])
             \o << Op("write", "arr", "length", len - count, "", "") >>

\* What Array.prototype[method] returns, s3 being the state in which it has
\* read the length: the new length, the element removed, and for splice an
\* array, which no function of the model looks into.
OriginResult(s3, method) ==
  CASE method \in {"push", "unshift"} -> s3.ret + 1
    [] method = "pop" /\ s3.ret > 0 -> Prop(s3, "arr", IdxKey(s3.ret - 1))
    [] method = "shift" /\ s3.ret > 0 -> Prop(s3, "arr", "0")
    [] OTHER -> Undef

\* data.push(v), data.pop(), data.shift(), data.unshift(v), data.splice(start,
\* v) up to the point where the method of Array.prototype has read the
\* length: the get trap hands out the method of arrayInstrumentations, which
\* sets shouldTrack = false and applies the method of Array.prototype to the
\* proxy.
Instrumented(s, self, o) ==
  LET s1 == GetTrap(s, self, "arr", o.op)
      s2 == Logged([s1 EXCEPT !.shouldTrack = FALSE],
                   Ev("call", self, s.activeEffect, "arr", o.op,
                      IF o.op \in {"push", "unshift"} THEN o.v
                      ELSE IF o.op = "splice" THEN Num(o.k) ELSE Undef))
  IN  GetTrap(s2, self, "arr", "length")

\* The rest of the method of arrayInstrumentations, s3 being the state in
\* which the length is read: the steps of the method of Array.prototype,
\* then shouldTrack = true and the return
InstrumentedSteps(s3, o) ==
  OriginSteps(o.op, s3.ret, Num(o.k), o.v)
  \o << Op("return", "arr", "", OriginResult(s3, o.op), "", "") >>

\* HasProperty(O, k) and, if it is there, Get(O, k); s1 is the state the has
\* trap has left
GetIfHas(s1, self, t, k) ==
  IF s1.ret = 1 THEN GetTrap(s1, self, t, k) ELSE s1

\* What a move comes to once the has trap and the get trap have run: the
\* element got is set, or the place it would go to is deleted
MoveStep(s, o) ==
  IF ReflectHas(s, o.t, o.a)
  THEN Op("write", o.t, o.k, Prop(s, o.t, o.a), "", "")
  ELSE Op("delete", o.t, o.k, 0, "", "")

\* includes, indexOf or lastIndexOf of Array.prototype run on an array-like
\* whose Get and HasProperty are the traps: the length, then the elements up
\* to the first that matches. ret is the result: 1 or 0 (true, false) for
\* includes, the index or -1 for the other two.
RECURSIVE FindLoop(_, _, _, _, _, _)
FindLoop(s, self, method, v, k, len) ==
  IF s.stop THEN s
  ELSE IF k < 0 \/ k >= len
  THEN [s EXCEPT !.ret = IF method = "includes" THEN 0 ELSE -1]
  ELSE LET next == IF method = "lastIndexOf" THEN k - 1 ELSE k + 1
           s1 == IF method = "includes" THEN s
                 ELSE HasTrap(s, self, "arr", IdxKey(k))
           s2 == IF method = "includes" \/ s1.ret = 1
                 THEN GetTrap(s1, self, "arr", IdxKey(k)) ELSE s1
       IN  IF method = "includes"
           THEN IF s2.ret = v THEN [s2 EXCEPT !.ret = 1]
                ELSE FindLoop(s2, self, method, v, next, len)
           ELSE IF s1.ret = 1 /\ StrictEq(s2.ret, v) THEN [s2 EXCEPT !.ret = k]
                ELSE FindLoop(s2, self, method, v, next, len)

\* originMethod.apply(this.raw, args): this.raw is read through the get trap;
\* on undefined the method of Array.prototype throws a TypeError, and on the
\* target, which holds what the proxy holds, it finds what the first call found.
FindOnRaw(s, self, res) ==
  LET s1 == GetTrap(s, self, "arr", "raw")
  IN  IF s1.stop THEN s1
      ELSE IF ~s.rawSelf["arr"] THEN Throw(s1, "TypeError")
      ELSE [s1 EXCEPT !.ret = res]

\* data.includes(v), data.indexOf(v), data.lastIndexOf(v): the method of
\* arrayInstrumentations, which runs the method of Array.prototype on the
\* proxy and, when that finds nothing, on this.raw.
ArrayFind(s, self, method, v) ==
  LET s1 == GetTrap(s, self, "arr", method)
      s2 == Logged(s1, Ev("call", self, s.activeEffect, "arr", method, v))
      s3 == GetTrap(s2, self, "arr", "length")
      s4 == FindLoop(s3, self, method, v,
                     IF method = "lastIndexOf" THEN s3.ret - 1 ELSE 0, s3.ret)
  IN  IF s4.stop THEN s4
      ELSE IF (s4.ret = 0 /\ method = "includes") \/ s4.ret = -1
      THEN FindOnRaw(s4, self, s4.ret)
      ELSE s4

\* data.push(v), data.pop(), data.shift(), data.unshift(v), data.splice(k, v)
\* from the point where the method of Array.prototype has read the length,
\* which is what s3.ret holds
InstrumentedRest(s3, o) == Inline(s3, InstrumentedSteps(s3, o))

\* The branch of a conditional whose condition the get trap has returned
Branch(s1, o) == Inline(s1, Fn(IF Truthy(s1.ret) THEN o.a ELSE o.b))

\* x++ once the get trap has returned x
Increment(s1, self, o) == SetTrap(s1, self, o.t, o.k, Plus(s1.ret, 1))

\* A value read is an operand of the result of the running function
Operand(s1) == [s1 EXCEPT !.acc = Append(@, s1.ret)]

\* Statement o of the function of effect self (0: of the script)
ExecOp(s, self, o) ==
  CASE o.op = "read" -> Operand(GetTrap(s, self, o.t, o.k))
    [] o.op = "write" -> SetTrap(s, self, o.t, o.k, o.v)
    [] o.op = "incr" -> Increment(GetTrap(s, self, o.t, o.k), self, o)
    [] o.op = "if" -> Branch(GetTrap(s, self, o.t, o.k), o)
    [] o.op = "effect" -> Effect(s, o.a, FALSE, "none", 0)
    [] o.op = "cread" ->
         ComputedValue(Inline(s, << Op("operand", "", "", 0, "", "") >>), self, o.v)
    [] o.op = "operand" -> Operand(s)
    [] o.op \in LengthKeys -> InstrumentedRest(Instrumented(s, self, o), o)
    [] o.op = "get" -> GetTrap(s, self, o.t, o.k)
    [] o.op = "copy" -> GetIfHas(HasTrap(s, self, o.t, o.k), self, o.t, o.k)
    [] o.op = "move" ->
         Inline(GetIfHas(HasTrap(s, self, o.t, o.a), self, o.t, o.a),
                << MoveStep(s, o) >>)
    [] o.op = "return" -> [s EXCEPT !.shouldTrack = TRUE, !.ret = o.v]
    [] o.op = "find" -> ArrayFind(s, self, o.a, o.v)
    [] o.op = "has" -> HasTrap(s, self, o.t, o.k)
    [] o.op = "keys" -> OwnKeysTrap(s, self, o.t)
    [] o.op = "delete" -> DeleteTrap(s, o.t, o.k)
    [] o.op = "throw" -> Throw(s, "Error")
    [] OTHER -> s

\* The function of effect self goes on with its next statement, or returns
ExecOps(s, self, ops) ==
  IF ops = << >> THEN s
  ELSE ExecOp(Defer(s, Frame("fn", self, "", "", 0, Tail(ops), {}, << >>)),
              self, Head(ops))

\* effectsToRun.forEach goes on with its next effect, or returns
ForEach(s, q) ==
  IF q = << >> THEN s
  ELSE RunOne(RunAll(s, Tail(q)), Head(q))

\* queue.forEach((job) => job()) from job number i on: a Set's forEach also
\* visits what is added while it runs.
Drain(s, i) ==
  IF i > Len(s.queue) THEN s
  ELSE EffectFn(Defer(s, Frame("flush", 0, "", "", i + 1, << >>, {}, << >>)),
                s.queue[i], "flush")

\* The program goes on with the frame on top of ctl
Step(s, f) ==
  CASE f.f = "fn" -> ExecOps(s, f.e, f.q)
    [] f.f = "effectFn" -> EffectFnLeave(s, f.e, f.rds, f.acc)
    [] f.f = "effectFnNoStack" ->
         [EffectFnLeave(s, f.e, f.rds, f.acc) EXCEPT !.activeEffect = 0]
    [] f.f = "forEach" -> ForEach(s, f.q)
    [] f.f = "trigger" -> TriggerTail(s, f.t, f.k)
    [] f.f = "value" -> ComputedValueStore(s, f.e, f.v)
    [] f.f = "job" -> WatchJobCall(s, f.e)
    [] f.f = "flush" -> Drain(s, f.v)
    [] OTHER -> s

\* The top-level call has returned or has ended early
Halted(s) == s.stop \/ s.ctl = << >>

\* The program runs on from s until the top-level call ends, for at most
\* 2^n frames
RECURSIVE Run(_, _)
Run(s, n) ==
  IF Halted(s) THEN s
  ELSE IF n = 0 THEN Step([s EXCEPT !.ctl = Tail(@)], Head(s.ctl))
  ELSE Run(Run(s, n - 1), n - 1)

\* What is left to do after 2^MaxRun frames is not followed
RunEnd(r) == IF Halted(r) THEN r ELSE Bound(r)

\* A top-level call run to its end
Call(s) == RunEnd(Run(s, MaxRun))

\* The object computed() returns, with its closure variables value and dirty
ComputedObj(s1) ==
  IF s1.stop THEN s1
  ELSE [s1 EXCEPT !.comps = Append(@, [eff |-> Len(s1.effects), value |-> Undef,
                                        dirty |-> TRUE, runs |-> 0, rets |-> 0])]

\* computed(getter)
Computed(s, getter) ==
  ComputedObj(Effect(s, getter, TRUE, "computed", Len(s.comps) + 1))

\* The callback handed to p.then: try { drain } finally { isFlushing = false;
\* queue.clear = 0 }, and the assignment leaves the Set as it is.
FlushJobs(s) ==
  [Call(Drain(s, 1)) EXCEPT !.isFlushing = FALSE]

\* watch from the test of options.immediate on. watch(source, cb) declares no
\* parameter options and no scope holds the name: reading it is a
\* ReferenceError, and neither job() nor oldValue = effectFn() is reached.
WatchOptions(s1) ==
  IF s1.stop THEN s1 ELSE Throw(s1, "ReferenceError")

\* watch(source, cb) for a source that is a function
Watch(s, source) ==
  WatchOptions(Effect([s EXCEPT !.watchers = Append(@,
                         [eff |-> Len(s.effects) + 1,
                          oldValue |-> Undef, newValue |-> Undef])],
                      source, TRUE, "watch", Len(s.watchers) + 1))

\* ----------------------------------------------------------------- actions
\* How often the call logged in r handed effect e to queueJob
SchedCalls(r, e) ==
  Cardinality({i \in 1..Len(r.log) :
                 /\ r.log[i].ev = "sched" /\ r.log[i].e = e
                 /\ r.effects[e].sched = "queueJob"})

Min2(n) == IF n > 2 THEN 2 ELSE n

Max0(n) == IF n < 0 THEN 0 ELSE n

Commit(r) ==
  /\ ~r.oob
  /\ objv' = r.objv
  /\ objOwn' = r.objOwn
  /\ arrv' = r.arrv
  /\ rawSelf' = r.rawSelf
  /\ bucket' = r.bucket
  /\ effects' = r.effects
  /\ effectStack' = r.effectStack
  /\ activeEffect' = r.activeEffect
  /\ comps' = r.comps
  /\ queue' = r.queue
  /\ isFlushing' = r.isFlushing
  /\ shouldTrack' = r.shouldTrack
  /\ watchers' = r.watchers
  /\ flushPending' = r.flushPending
  /\ log' = r.log
  /\ err' = r.err
  /\ turnCnt' =
       [e \in 1..MaxEffects |->
          LET n == SchedCalls(r, e)
          IN  IF r.log[1].t = "flush" THEN -Max0(turnCnt[e])
              ELSE IF n = 0 THEN turnCnt[e]
              ELSE Min2(Max0(turnCnt[e]) + n)]

Begin(name, k, v) == Logged(St, Ev("op", 0, activeEffect, name, k, v))

\* effect(fn) and effect(fn, {scheduler: queueJob}) in a script
NewEffect(fn, sched) ==
  Commit(Call(Effect(Begin("effect", fn, 0), fn, FALSE, sched, 0)))

\* proxy[k] = v in a script
Write(t, k, v) ==
  Commit(Call(SetTrap(Begin(t, k, v), 0, t, k, v)))

\* proxy[k] in a script
Read(t, k) ==
  Commit(GetTrap(Begin("get", k, 0), 0, t, k))

\* computed(getter) in a script
NewComputed(getter) ==
  /\ Len(comps) < MaxComps
  /\ Commit(Computed(Begin("computed", getter, 0), getter))

\* A statement of a script
Script(s, o) == Call(ExecOps(s, 0, << o >>))

\* data.push(v) in a script
Push(v) ==
  Commit(Script(Begin("push", "", v), Op("push", "arr", "", v, "", "")))

\* data.pop() in a script
Pop ==
  Commit(Script(Begin("pop", "", 0), Op("pop", "arr", "", 0, "", "")))

\* data.shift() in a script
Shift ==
  Commit(Script(Begin("shift", "", 0), Op("shift", "arr", "", 0, "", "")))

\* data.unshift(v) in a script
Unshift(v) ==
  Commit(Script(Begin("unshift", "", v), Op("unshift", "arr", "", v, "", "")))

\* data.splice(start, deleteCount) in a script
Splice(start, deleteCount) ==
  Commit(Script(Begin("splice", IdxKey(start), deleteCount),
                Op("splice", "arr", IdxKey(start), deleteCount, "", "")))

\* data.includes(v), data.indexOf(v), data.lastIndexOf(v) in a script
Find(method, v) ==
  Commit(ArrayFind(Begin(method, "", v), 0, method, v))

\* k in proxy, in a script
Has(t, k) ==
  Commit(HasTrap(Begin("has", k, IF IsArray(t) THEN 1 ELSE 0), 0, t, k))

\* delete proxy[k] in a script
Delete(t, k) ==
  Commit(Call(DeleteTrap(Begin("delete", k, IF IsArray(t) THEN 1 ELSE 0), t, k)))

\* watch(getter, cb) and watch(getter, cb, {immediate: true}) in a script
NewWatch(getter, immediate) ==
  Commit(Watch(Begin("watch", getter, IF immediate THEN 1 ELSE 0), getter))

\* c.value in a script
ReadComputed(c) ==
  /\ c \in 1..Len(comps)
  /\ Commit(Call(ComputedValue(Begin("value", "", c), 0, c)))

\* The microtask
Flush ==
  /\ flushPending
  /\ Commit(FlushJobs([Begin("flush", "", 0) EXCEPT !.flushPending = FALSE]))

InitCommon ==
  /\ objOwn = ObjKeys
  /\ bucket = [t \in Targets |-> EmptyDepsMap]
  /\ effects = << >>
  /\ effectStack = << >>
  /\ activeEffect = 0
  /\ comps = << >>
  /\ queue = << >>
  /\ isFlushing = FALSE
  /\ shouldTrack = TRUE
  /\ watchers = << >>
  /\ flushPending = FALSE
  /\ turnCnt = [e \in 1..MaxEffects |-> 0]
  /\ log = << >>
  /\ err = "none"

FewStale ==
  /\ Len(effectStack) < MaxStale
  /\ activeEffect # 0 => Len(effects[activeEffect].deps) < MaxStaleDeps

RawChoices == {[t \in Targets |-> b] : b \in BOOLEAN}

\* ---------------------------------------------- effects that only read obj
ObjFns == {"rx", "ry", "branch", "nest"}

Init ==
  /\ InitCommon
  /\ objv = [k \in ObjKeys |-> 0]
  /\ arrv = << >>
  /\ rawSelf \in RawChoices

Next ==
  \/ \E fn \in ObjFns : NewEffect(fn, "none")
  \/ \E k \in ObjKeys, v \in {0, 1} : Write("obj", k, v)
  \/ \E k \in ObjKeys : Read("obj", k)

Spec == Init /\ [][Next]_vars

\* ------------------------- effects that write what they read, or throw
SelfFns == {"incr", "flip"}

InitSelf ==
  /\ InitCommon
  /\ objv = [k \in ObjKeys |-> IF k = "c" THEN 1 ELSE 0]
  /\ arrv = << >>
  /\ rawSelf \in RawChoices

NextSelf ==
  \/ \E fn \in SelfFns : NewEffect(fn, "none")
  \/ \E k \in {"c", "x"}, v \in {0, 1} : Write("obj", k, v)

SpecSelf == InitSelf /\ [][NextSelf]_vars

\* ------------------------------------------------- effects over the array
ArrFns == {"r0", "r2", "rlen"}

InitArr ==
  /\ InitCommon
  /\ objv = [k \in ObjKeys |-> 0]
  /\ arrv \in {<< 1, 1 >>, << 1, 1, 1 >>}
  /\ rawSelf \in RawChoices

NextArr ==
  \/ \E fn \in ArrFns : NewEffect(fn, "none")
  \/ \E k \in IdxKeys, v \in {0, 1} : Num(k) < MaxLen /\ Write("arr", k, v)
  \/ \E n \in (0..MaxLen) \cup {Undef, NaN} : Write("arr", "length", n)

SpecArr == InitArr /\ [][NextArr]_vars

\* ---------------------------------------------------------------- computed
CompFns == {"sum", "boom"}

InitComp ==
  /\ InitCommon
  /\ objv = [k \in ObjKeys |-> 0]
  /\ arrv = << >>
  /\ rawSelf \in RawChoices

NextComp ==
  \/ \E g \in CompFns : FewStale /\ NewComputed(g)
  \/ \E c \in 1..MaxComps : FewStale /\ ReadComputed(c)
  \/ \E k \in ObjKeys, v \in {0, 1} : FewStale /\ Write("obj", k, v)

SpecComp == InitComp /\ [][NextComp]_vars

\* ------------------------------------------- computed read inside an effect
NextOuter ==
  \/ NewComputed("sum")
  \/ \E c \in 1..MaxComps : ReadComputed(c)
  \/ (Len(comps) >= 1 /\ NewEffect("rc", "none"))
  \/ \E k \in ObjKeys, v \in {0, 1} : Write("obj", k, v)

SpecOuter == InitComp /\ [][NextOuter]_vars

\* --------------------------------------------------------------- queueJob
QueueFns == {"rx", "boom", "relay"}

InitQueue ==
  /\ InitCommon
  /\ objv = [k \in ObjKeys |-> 0]
  /\ arrv = << >>
  /\ rawSelf \in RawChoices

\* Each function is handed to effect() once.
NewJob(fn) ==
  /\ Len(effects) < MaxJobs
  /\ \A e \in 1..Len(effects) : effects[e].fn # fn
  /\ NewEffect(fn, "queueJob")

\* A behaviour is followed through the batch window after a throw.
FewStaleJobs ==
  /\ Len(effectStack) < MaxStale
  /\ activeEffect # 0 => Len(effects[activeEffect].deps) < MaxStaleJobDeps

NextQueue ==
  \/ \E fn \in QueueFns : FewStaleJobs /\ NewJob(fn)
  \/ \E k \in ObjKeys, v \in {0, 1} : FewStaleJobs /\ Write("obj", k, v)
  \/ FewStaleJobs /\ Flush

SpecQueue == InitQueue /\ [][NextQueue]_vars

\* ------------------------------------------------------ push in effects
PushFns == {"push", "rlen"}

InitPush ==
  /\ InitCommon
  /\ objv = [k \in ObjKeys |-> 0]
  /\ arrv \in {<< >>, << 1 >>}
  /\ rawSelf \in RawChoices

NextPush ==
  \/ \E fn \in PushFns : NewEffect(fn, "none")
  \/ Push(1)

SpecPush == InitPush /\ [][NextPush]_vars

\* --------------------------------------------- writes of the same value, NaN
InitSame ==
  /\ InitCommon
  /\ objv \in {[k \in ObjKeys |-> IF k = "x" THEN v ELSE 0] : v \in {0, NaN}}
  /\ arrv = << >>
  /\ rawSelf \in RawChoices

NextSame ==
  \/ \E sched \in {"none", "queueJob"} : NewEffect("rx", sched)
  \/ \E v \in {0, 1, NaN} : Write("obj", "x", v)
  \/ Flush

SpecSame == InitSame /\ [][NextSame]_vars

\* -------------------------------------------------------------------- watch
WatchFns == {"rx", "ry"}

NextWatch ==
  \/ \E g \in WatchFns, immediate \in BOOLEAN : NewWatch(g, immediate)
  \/ \E k \in {"x", "y"}, v \in {0, 1} : Write("obj", k, v)

SpecWatch == Init /\ [][NextWatch]_vars

\* ------------------------------ scheduled and unscheduled effects on one key
OrderFns == {"rx", "branch"}

InitOrder ==
  /\ InitCommon
  /\ objv = [k \in ObjKeys |-> IF k = "c" THEN 1 ELSE 0]
  /\ arrv = << >>
  /\ rawSelf \in RawChoices

\* effect(fn) or effect(fn, {scheduler: queueJob}), for a few effects
NewOrdered(fn, sched) ==
  /\ Len(effects) < MaxJobs
  /\ NewEffect(fn, sched)

NextOrder ==
  \/ \E fn \in OrderFns, sched \in {"none", "queueJob"} : NewOrdered(fn, sched)
  \/ \E k \in {"c", "x"}, v \in {0, 1} : Write("obj", k, v)
  \/ Flush

SpecOrder == InitOrder /\ [][NextOrder]_vars

\* ---------------------------------------- array methods that exit by a throw
MethFns == {"push", "pop", "r2boom"}

InitMeth ==
  /\ InitCommon
  /\ objv = [k \in ObjKeys |-> 0]
  /\ arrv \in {<< 1 >>, << 1, 0 >>}
  /\ rawSelf \in RawChoices

NextMeth ==
  \/ \E fn \in MethFns : FewStale /\ NewEffect(fn, "none")
  \/ FewStale /\ Push(1)
  \/ FewStale /\ Pop

SpecMeth == InitMeth /\ [][NextMeth]_vars

\* ------------------------------------- array methods that move the elements
ShiftFns == {"shift", "unshift", "splice", "r0"}

NextShift ==
  \/ \E fn \in ShiftFns : FewStale /\ NewOrdered(fn, "none")
  \/ FewStale /\ Shift
  \/ FewStale /\ Unshift(0)
  \/ \E start \in {0, 1} : FewStale /\ Splice(start, 1)

SpecShift == InitMeth /\ [][NextShift]_vars

\* ------------------------------------ the has trap and the searching methods
FindFns == {"incl0", "incl5", "idx0", "last0", "hasx"}

InitFind ==
  /\ InitCommon
  /\ objv = [k \in ObjKeys |-> 0]
  /\ arrv \in {<< >>, << 1, 0 >>}
  /\ rawSelf \in RawChoices

NextFind ==
  \/ \E fn \in FindFns : FewStale /\ NewOrdered(fn, "none")
  \/ \E method \in FindKeys, v \in {0, 5} : FewStale /\ Find(method, v)
  \/ \E t \in Targets : FewStale /\ Has(t, IF IsArray(t) THEN "0" ELSE "x")
  \/ \E v \in {0, 1} : FewStale /\ Write("arr", "0", v)
  \/ FewStale /\ Delete("obj", "x")
  \/ FewStale /\ Delete("arr", "0")

SpecFind == InitFind /\ [][NextFind]_vars

\* ------------------------------------- keys of the object added and deleted
KeysFns == {"iter", "iterx"}

NextKeys ==
  \/ \E fn \in KeysFns : NewEffect(fn, "none")
  \/ \E k \in {"x", "y"}, v \in {Undef, 0, 1} : Write("obj", k, v)
  \/ \E k \in {"x", "y"} : Delete("obj", k)

SpecKeys == Init /\ [][NextKeys]_vars

\* ------------------------------------------ effects that enumerate the array
IterFns == {"iterA", "r0"}

NextIter ==
  \/ \E fn \in IterFns : NewEffect(fn, "none")
  \/ \E k \in IdxKeys, v \in {0, 1} : Num(k) < MaxLen /\ Write("arr", k, v)
  \/ \E n \in 0..MaxLen : Write("arr", "length", n)

SpecIter == InitArr /\ [][NextIter]_vars

\* ------------------------------------- reads in a script after a throw
ThrowFns == {"boom", "rx"}

NextThrow ==
  \/ \E fn \in ThrowFns : FewStale /\ NewEffect(fn, "none")
  \/ \E k \in {"c", "y"}, v \in {0, 1} : FewStale /\ Write("obj", k, v)
  \/ \E k \in ObjKeys : FewStale /\ Read("obj", k)

SpecThrow == InitSelf /\ [][NextThrow]_vars

\* ================================================================= claims
Members(t, k) == Range(bucket[t].sets[k])

\* The (target, key) pairs whose Set holds effect e
MemberOf(e) == {tk \in Targets \X DepKeys : e \in Members(tk[1], tk[2])}

\* C1: trigger never invokes an effect from inside that effect's own run, that
\* is while it is the active effect: no effectFn is called by trigger, at call
\* depth two or more, with activeEffect being that same effectFn.
C1_NoSelfInvoke ==
  \A i \in 1..Len(log) :
    (log[i].ev = "run" /\ log[i].t = "trigger" /\ log[i].v >= 2)
      => log[i].e # log[i].a

\* C4: once the latest run of an effect has returned, the effect is in the Set
\* of (target, key) exactly when that run read (target, key), and its deps list
\* holds exactly the Sets it is in.
C4_DepsAreLastReads ==
  \A e \in 1..Len(effects) :
    effects[e].state = "done"
      => /\ MemberOf(e) = effects[e].lastReads
         /\ Range(effects[e].deps) = MemberOf(e)

\* C5: with an outer effect that creates an inner one, every read made inside
\* an effect's function is recorded for that effect (activeEffect is the
\* effect whose function holds the read, also after the inner effect has
\* returned), activeEffect is the top of effectStack, and a write to the
\* inner's property y never invokes an outer effect, a write to the outer's
\* property x never invokes an inner effect.
C5_NestedAttribution ==
  /\ \A i \in 1..Len(log) :
       (log[i].ev = "read" /\ log[i].e # 0) => log[i].a = log[i].e
  /\ activeEffect = IF effectStack = << >> THEN 0 ELSE effectStack[Len(effectStack)]
  /\ \A i \in 1..Len(log) :
       (log[i].ev = "run" /\ log[i].t = "trigger")
         => /\ effects[log[i].e].fn = "nest" => log[1].k = "x"
            /\ effects[log[i].e].fn = "ry" => log[1].k = "y"

\* A write to y has just re-run an inner effect (the one created by the outer
\* effect before it) and not its outer effect.
C5_Witness ==
  \E i \in 1..Len(log) :
    /\ log[i].ev = "run" /\ log[i].t = "trigger" /\ log[1].k = "y"
    /\ log[i].e > 1
    /\ effects[log[i].e].fn = "ry"
    /\ effects[log[i].e - 1].fn = "nest"
    /\ effects[log[i].e - 1].state = "done"
    /\ << "obj", "x" >> \in effects[log[i].e - 1].lastReads

\* How often effect e was invoked in a log: run, or handed to its scheduler
Invocations(lg, e) ==
  Cardinality({i \in 1..Len(lg) : lg[i].ev \in {"run", "sched"} /\ lg[i].e = e})

Triggered(lg) == \E i \in 1..Len(lg) : lg[i].ev = "trigger"

\* C2: a trigger for arr.length = n invokes, exactly once, every effect that
\* was tracked against an index >= n, and does not invoke an effect tracked
\* against indices < n only.
C2_LengthInvokesCutIndices ==
  [][ (log'[1].t = "arr" /\ log'[1].k = "length" /\ Triggered(log'))
        => \A e \in 1..Len(effects) :
             /\ (\E k \in IdxKeys : Num(k) >= log'[1].v /\ e \in Members("arr", k))
                  => Invocations(log', e) = 1
             /\ (\A tk \in MemberOf(e) :
                   tk[1] = "arr" /\ tk[2] \in IdxKeys /\ Num(tk[2]) < log'[1].v)
                  => Invocations(log', e) = 0 ]_vars

\* C3: a trigger for a write to an index at or past the length of the array
\* invokes, exactly once, every effect that was tracked against length.
C3_AddInvokesLength ==
  [][ (log'[1].t = "arr" /\ log'[1].k \in IdxKeys /\ Num(log'[1].k) >= Len(arrv)
         /\ Triggered(log'))
        => \A e \in Members("arr", "length") : Invocations(log', e) = 1 ]_vars

\* The outcome of a call of the function named fn
GetterOutcome(r) == [err |-> r.err, ret |-> FnResult(r.acc)]

\* What the getter named fn does when it is called on the current state,
\* outside every effect: err is the error it throws, or "none" and ret what
\* it returns
GetterNow(fn) ==
  GetterOutcome(Call(ExecOps([St EXCEPT !.activeEffect = 0], 0, Fn(fn))))

\* The computed whose effectFn is e, or 0
CompOf(e) == IF effects[e].sched = "computed" THEN effects[e].owner ELSE 0

\* No scheduler call for effect e follows event i of the log
NoSchedAfter(i, e) ==
  \A j \in (i + 1)..Len(log) : ~(log[j].ev = "sched" /\ log[j].e = e)

\* C6 as stated: a computed is created dirty and without running its getter;
\* the getter runs only for a read of .value made while dirty; that read makes
\* it clean; a trigger never runs the getter; and the getter runs at most once
\* between two turns to dirty.
C6_AsStated ==
  /\ log # << >> /\ log[1].t = "computed"
       => /\ comps[Len(comps)].dirty
          /\ \A i \in 1..Len(log) : log[i].ev # "run"
  /\ \A i \in 1..Len(log) :
       (log[i].ev = "run" /\ CompOf(log[i].e) # 0)
         => /\ log[i].t = "computed"
            /\ log[i - 1].ev = "cread" /\ log[i - 1].v = CompOf(log[i].e)
            /\ log[i - 1].a = 1
  /\ \A i \in 1..Len(log) :
       (log[i].ev = "cread" /\ NoSchedAfter(i, comps[log[i].v].eff))
         => ~comps[log[i].v].dirty
  /\ \A c \in 1..Len(comps) : comps[c].runs <= 1

\* C6, amended: as above, but a read of .value makes the computed clean when
\* its getter returns (a getter that throws leaves it dirty, and the next read
\* runs the getter again), and the getter returns at most once between two
\* turns to dirty.
C6_CachedUntilDirty ==
  /\ log # << >> /\ log[1].t = "computed"
       => /\ comps[Len(comps)].dirty
          /\ \A i \in 1..Len(log) : log[i].ev # "run"
  /\ \A i \in 1..Len(log) :
       (log[i].ev = "run" /\ CompOf(log[i].e) # 0)
         => /\ log[i].t = "computed"
            /\ log[i - 1].ev = "cread" /\ log[i - 1].v = CompOf(log[i].e)
            /\ log[i - 1].a = 1
  /\ \A i \in 1..Len(log) :
       (log[i].ev = "cread" /\ err = "none" /\ NoSchedAfter(i, comps[log[i].v].eff))
         => ~comps[log[i].v].dirty
  /\ \A c \in 1..Len(comps) : comps[c].rets <= 1

\* A clean computed has just been read a second time without running its
\* getter, after an upstream write had turned it dirty and a read had
\* recomputed it.
C6_Witness ==
  /\ log # << >> /\ log[1].t = "value"
  /\ Len(log) = 3 /\ log[2].ev = "cread" /\ log[2].a = 0 /\ log[3].ev = "cval"
  /\ comps[1].rets = 1
  /\ objv["x"] = 1

\* C7: effectFn returns what fn returned, and a read of .value returns what
\* the getter returns on the current state (so none when the getter throws).
C7_ValueIsGetterResult ==
  /\ \A i \in 1..Len(log) : log[i].ev = "done" => log[i].v = log[i].a
  /\ \A i \in 1..Len(log) :
       log[i].ev = "cval"
         => /\ GetterNow(effects[comps[log[i].v].eff].fn).err = "none"
            /\ log[i].a = GetterNow(effects[comps[log[i].v].eff].fn).ret

\* C8: a write that changes a property the getter of a computed has read
\* re-runs every effect that has read .value of that computed.
C8_OuterEffectReruns ==
  [][ (log' # << >> /\ log'[1].t = "obj" /\ rawSelf["obj"]
         /\ objv[log'[1].k] # log'[1].v)
        => \A e \in 1..Len(effects), c \in 1..Len(comps) :
             (effects[e].fn = "rc" /\ effects[e].state = "done" /\ c = 1
                /\ comps[c].eff \in Members("obj", log'[1].k))
               => Invocations(log', e) >= 1 ]_vars

\* How often effectFn e was called in the call logged in lg
Executions(lg, e) ==
  Cardinality({i \in 1..Len(lg) : lg[i].ev = "run" /\ lg[i].e = e})

\* The events of lg that are reads made by the function of effect e
ReadsOf(lg, e) ==
  {i \in 1..Len(lg) : lg[i].ev = "read" /\ lg[i].e = e /\ lg[i].k \in ObjKeys}

\* C9: an effect scheduled by queueJob and triggered twice in a turn is not
\* run during the turn, and the flush that follows runs it exactly once, with
\* the values of the last write.
C9_AsStated ==
  [][ /\ \A i \in 1..Len(log') :
           (log'[i].ev = "run" /\ effects'[log'[i].e].sched = "queueJob")
             => log'[i].t \in {"create", "flush"}
      /\ (log' # << >> /\ log'[1].t = "flush")
           => \A e \in 1..Len(effects) :
                (effects[e].sched = "queueJob" /\ turnCnt[e] >= 2)
                  => /\ Executions(log', e) = 1
                     /\ \A i \in ReadsOf(log', e) : log'[i].v = objv[log'[i].k] ]_vars

\* C10: when the drain of a flush has ended, isFlushing is false and the
\* pending set is empty; and a flush runs no job that has not been handed to
\* queueJob since the flush before.
C10_FlushResets ==
  [][ (log' # << >> /\ log'[1].t = "flush")
        => /\ ~isFlushing'
           /\ queue' = << >>
           /\ \A e \in 1..Len(effects) :
                Executions(log', e) >= 1
                  => \/ turnCnt[e] >= 1
                     \/ \E i \in 1..Len(log') : log'[i].ev = "sched" /\ log'[i].e = e ]_vars

\* C11: an effect whose function only calls push, pop, shift, unshift or
\* splice is, once its run has returned, in the Set of no index and not in the
\* Set of length.
C11_MethodsTrackNothing ==
  \A e \in 1..Len(effects) :
    (/\ effects[e].fn \in {"push", "pop", "shift", "unshift", "splice"}
     /\ effects[e].state = "done")
      => \A k \in ArrKeys : e \notin Members("arr", k)

\* C12: shouldTrack is true whenever no instrumented method is running, also
\* after a call that a thrown error ended.
C12_ShouldTrackRestored == shouldTrack

\* How often a trigger invoked effect e in the call logged in lg
TriggerRuns(lg, e) ==
  Cardinality({i \in 1..Len(lg) :
                 /\ lg[i].e = e
                 /\ \/ lg[i].ev = "run" /\ lg[i].t = "trigger"
                    \/ lg[i].ev = "sched"})

\* How many pushes the call logged in lg made
Pushes(lg) ==
  Cardinality({i \in 1..Len(lg) : lg[i].ev = "call" /\ lg[i].k = "push"})

\* C13: with effects that call push on the same array, creating one more
\* returns as long as the array has room for the element it pushes and the
\* behaviour for one more effect (a call that nests without end never
\* returns, whatever the bounds), and no call invokes an effect by triggers
\* more often than it pushes.
C13_PushTerminates ==
  /\ (Len(effects) < MaxEffects /\ Len(arrv) < MaxLen)
       => ~Call(Effect(Begin("effect", "push", 0), "push", FALSE, "none", 0)).oob
  /\ \A e \in 1..Len(effects) : TriggerRuns(log, e) <= Pushes(log)

\* A second effect that calls push has just been created and has returned,
\* the first one being tracked against length.
C13_Witness ==
  /\ log # << >> /\ log[1].t = "effect" /\ log[1].k = "push" /\ err = "none"
  /\ Len(effects) >= 2
  /\ effects[Len(effects)].state = "done"
  /\ \E e \in 1..(Len(effects) - 1) :
       effects[e].fn = "push" /\ e \in Members("arr", "length")
  /\ Pushes(log) = 1
  /\ rawSelf["arr"] /\ Triggered(log)

\* C14: a write of the value the property already has (the same value, or NaN
\* over NaN) invokes no effect and no scheduler; a write of a number over NaN,
\* or of NaN over a number, invokes the effects tracked against the key.
C14_SameValueNoInvoke ==
  [][ (log' # << >> /\ log'[1].t = "obj" /\ log'[1].k = "x")
        => /\ objv["x"] = log'[1].v
                => \A e \in 1..Len(effects) : Invocations(log', e) = 0
           /\ (objv["x"] = NaN) # (log'[1].v = NaN)
                => \A e \in Members("obj", "x") : Invocations(log', e) >= 1 ]_vars

\* C15: a write, through the proxy, of a value that differs from the one the
\* property has runs exactly once every unscheduled effect whose last run read
\* the property.
C15_ChangeRerunsOnce ==
  [][ (log' # << >> /\ log'[1].t = "obj" /\ objv[log'[1].k] # log'[1].v)
        => \A e \in Members("obj", log'[1].k) :
             (effects[e].sched = "none" /\ effects[e].state = "done")
               => Executions(log', e) = 1 ]_vars

\* The calls of the callback of the watch of effectFn e in a log
CbCalls(lg, e) == {i \in 1..Len(lg) : lg[i].ev = "cb" /\ lg[i].e = e}

\* The property the getter of a watch reads
WatchedKey(fn) == IF fn = "rx" THEN "x" ELSE "y"

\* C16: watch with immediate calls cb once, with the value of the getter and
\* undefined; watch without immediate does not call cb; and a write that changes
\* the watched property calls cb once, with the new and the old value.
C16_WatchCallsBack ==
  [][ /\ (log' # << >> /\ log'[1].t = "watch")
           => LET e == Len(effects')
              IN  IF log'[1].v = 1
                  THEN /\ Cardinality(CbCalls(log', e)) = 1
                       /\ \A i \in CbCalls(log', e) :
                            /\ GetterNow(log'[1].k).err = "none"
                            /\ log'[i].a = GetterNow(log'[1].k).ret
                            /\ log'[i].v = Undef
                  ELSE CbCalls(log', e) = {}
      /\ (log' # << >> /\ log'[1].t = "obj" /\ objv[log'[1].k] # log'[1].v)
           => \A w \in 1..Len(watchers) :
                LET e == watchers[w].eff
                IN  WatchedKey(effects[e].fn) = log'[1].k
                      => /\ Cardinality(CbCalls(log', e)) = 1
                         /\ \A i \in CbCalls(log', e) :
                              /\ log'[i].a = log'[1].v
                              /\ log'[i].v = objv[log'[1].k] ]_vars

\* An event of the log is an invocation: effectFn called, or its scheduler
IsInvoke(r) == r.ev \in {"run", "sched"}

\* The effects a call invoked, in the order it invoked them
InvokedSeq(lg) ==
  LET h == SelectSeq(lg, IsInvoke) IN [i \in 1..Len(h) |-> h[i].e]

\* The run that event i of lg starts returns before the next invocation
RunsToEnd(lg, i) ==
  \E j \in (i + 1)..Len(lg) :
    /\ lg[j].ev = "done" /\ lg[j].e = lg[i].e
    /\ \A m \in (i + 1)..(j - 1) : ~IsInvoke(lg[m])

\* C17: when the trigger of a write has returned, the effects it invoked are,
\* in order, the members of the Set of the written key as it stood before the
\* write; those with a scheduler were handed to it and not run, the others
\* were run, each returning before the next was invoked.
C17_TriggerOrder ==
  [][ (log' # << >> /\ log'[1].t = "obj" /\ Triggered(log') /\ err' = "none")
        => /\ InvokedSeq(log') = bucket["obj"].sets[log'[1].k]
           /\ \A i \in 1..Len(log') :
                /\ log'[i].ev = "sched"
                     => /\ effects[log'[i].e].sched # "none"
                        /\ Executions(log', log'[i].e) = 0
                /\ log'[i].ev = "run"
                     => /\ effects[log'[i].e].sched = "none"
                        /\ RunsToEnd(log', i) ]_vars

\* A write has just triggered two effects of one key, the later-created one
\* first because the other had subscribed again since; one was handed to its
\* scheduler and the other run.
C17_Witness ==
  /\ log # << >> /\ log[1].t = "obj" /\ Triggered(log) /\ err = "none"
  /\ Len(InvokedSeq(log)) = 2
  /\ InvokedSeq(log)[1] > InvokedSeq(log)[2]
  /\ \E i, j \in 1..Len(log) : log[i].ev = "sched" /\ log[j].ev = "done"

\* C18: on the object, a write that creates a key (for a target whose raw is
\* the target, so that writes trigger) and a delete of a key the object has
\* invoke every effect tracked against the iteration key exactly once; a
\* delete of a key the object has not invokes nothing.
C18_StructuralInvokesIterate ==
  [][ /\ (log' # << >> /\ log'[1].t = "obj" /\ log'[1].k \notin objOwn
             /\ rawSelf["obj"])
           => \A e \in Members("obj", ITERATE_KEY) : Invocations(log', e) = 1
      /\ (log' # << >> /\ log'[1].t = "delete" /\ log'[1].v = 0
             /\ log'[1].k \in objOwn)
           => \A e \in Members("obj", ITERATE_KEY) : Invocations(log', e) = 1
      /\ (log' # << >> /\ log'[1].t = "delete" /\ log'[1].v = 0
             /\ log'[1].k \notin objOwn)
           => \A e \in 1..Len(effects) : Invocations(log', e) = 0 ]_vars

\* C19: a trigger for a write to the array has type ADD exactly when the key
\* is an index at or past the length; and a write to an index below the
\* length, or to length, invokes no effect tracked against the iteration key
\* only.
C19_ArrayWriteKinds ==
  [][ (log' # << >> /\ log'[1].t = "arr")
        => /\ \A i \in 1..Len(log') :
                log'[i].ev = "trigger"
                  => (log'[i].v = TypeNum("ADD")
                        <=> (log'[1].k \in IdxKeys /\ Num(log'[1].k) >= Len(arrv)))
           /\ (log'[1].k = "length" \/ NumLess(Num(log'[1].k), Len(arrv)))
                => \A e \in 1..Len(effects) :
                     MemberOf(e) = {<< "arr", ITERATE_KEY >>}
                       => Invocations(log', e) = 0 ]_vars

\* C20: when a call made by a script has ended, by a return or by a throw,
\* effectStack is empty and activeEffect is undefined; and a read made by a
\* script adds no member to any Set.
C20_IdleStackEmpty ==
  [][ /\ effectStack' = << >>
      /\ activeEffect' = 0
      /\ (log' # << >> /\ log'[1].t = "get") => bucket' = bucket ]_vars

====
